---- MODULE Spec2Model ----
(***************************************************************************)
(* Payment reconciliation and escrow settlement of the Farmers Market      *)
(* backend (backend/src/routes.rs, backend/src/db.rs, backend/src/mpesa.rs)*)
(*                                                                         *)
(* The relational store is modelled by one variable per table.  Every HTTP *)
(* handler is a process: one step per database round trip (the handler's   *)
(* suspension points), its position in procs[p].pc, its locals in procs[p].*)
(* Amounts are whole shillings.                                            *)
(***************************************************************************)
EXTENDS Integers, Sequences, FiniteSets, TLC

\* ------------------------------------------------------------------ bounds
\* cart_items.id is a SERIAL: ids 1..MaxCartLines are ever handed out.
MaxCartLines == 2
\* largest quantity a cart line carries (requests ask for 1..MaxQty)
MaxQty == 2
\* checkout-request ids the gateway issues: 1..MaxTxns
MaxTxns == 1
\* shipping_orders.id is a SERIAL: ids 1..MaxOrders
MaxOrders == 2
\* orders the escrow specifications start settlement on
MaxEscrowOrders == 1

\* ------------------------------------------------------------ seeded rows
None == "None"
\* a NULL cart_item_ids column (Option<String> = None)
NullStr == <<"NULL">>
Customers == {1, 2}
Vendors == {3, 4}
Users == Customers \cup Vendors
ProductIds == {1, 2}

\* rows of the products table: vendor_id and price
InitialProducts ==
    [pid \in ProductIds |-> IF pid = 1 THEN [vendor_id |-> 3, price |-> 5]
                                       ELSE [vendor_id |-> 4, price |-> 7]]

\* ----------------------------------------------------- strings of ids
\* A string is a sequence of one-character strings.
Digits == <<"0", "1", "2", "3", "4", "5", "6", "7", "8", "9">>

RECURSIVE to_string(_)
\* i32::to_string of a non-negative id
to_string(n) ==
    IF n < 10 THEN <<Digits[n + 1]>>
    ELSE to_string(n \div 10) \o <<Digits[(n % 10) + 1]>>

RECURSIVE join(_, _)
\* [String]::join(sep)
join(strs, sep) ==
    IF strs = <<>> THEN <<>>
    ELSE IF Len(strs) = 1 THEN strs[1]
    ELSE strs[1] \o sep \o join(Tail(strs), sep)

RECURSIVE split(_, _)
\* str::split(c): the pieces between the separators, empty pieces kept
split(s, c) ==
    IF \A i \in 1..Len(s) : s[i] # c THEN <<s>>
    ELSE LET k == CHOOSE i \in 1..Len(s) :
                      s[i] = c /\ \A j \in 1..(i - 1) : s[j] # c
         IN <<SubSeq(s, 1, k - 1)>> \o split(SubSeq(s, k + 1, Len(s)), c)

DigitValue(ch) == (CHOOSE d \in 1..10 : Digits[d] = ch) - 1

RECURSIVE parse_digits(_)
parse_digits(tok) ==
    IF Len(tok) = 1 THEN DigitValue(tok[1])
    ELSE 10 * parse_digits(SubSeq(tok, 1, Len(tok) - 1)) + DigitValue(tok[Len(tok)])

\* str::trim
RECURSIVE trim(_)
trim(tok) ==
    IF tok # <<>> /\ tok[1] = " " THEN trim(Tail(tok))
    ELSE IF tok # <<>> /\ tok[Len(tok)] = " " THEN trim(SubSeq(tok, 1, Len(tok) - 1))
    ELSE tok

\* whether str::parse::<i32>() succeeds on a token the join can produce:
\* a non-empty run of decimal digits
parses(tok) ==
    tok # <<>> /\ \A i \in 1..Len(tok) : \E d \in 1..10 : Digits[d] = tok[i]

\* checkout's cart_item_ids_str: the ids joined with ","
cart_item_ids_str(ids) == join([i \in 1..Len(ids) |-> to_string(ids[i])], <<",">>)

\* the callback's selected_ids: split(','), trim, parse, failures dropped
selected_ids(str) ==
    LET toks == split(str, ",")
    IN {parse_digits(trim(toks[i])) : i \in {k \in 1..Len(toks) : parses(trim(toks[k]))}}

\* ------------------------------------------------------------ phone numbers
\* char::is_ascii_digit
is_ascii_digit(c) == \E d \in 1..10 : Digits[d] = c

\* str::starts_with
starts_with(s, prefix) ==
    Len(s) >= Len(prefix) /\ SubSeq(s, 1, Len(prefix)) = prefix

\* phone.replace(&[' ', '-', '(', ')'][..], "")
clean_phone(phone) == SelectSeq(phone, LAMBDA c : c \notin {" ", "-", "(", ")"})

all_digits(s) == \A i \in 1..Len(s) : is_ascii_digit(s[i])

\* is_valid_kenyan_phone: the three formats, tested on the cleaned string
is_valid_kenyan_phone(phone) ==
    LET clean == clean_phone(phone)
    IN IF starts_with(clean, <<"0", "7">>) /\ Len(clean) = 10 THEN all_digits(clean)
       ELSE IF starts_with(clean, <<"2", "5", "4">>) /\ Len(clean) = 12
       THEN all_digits(clean)
       ELSE IF starts_with(clean, <<"+", "2", "5", "4">>) /\ Len(clean) = 13
       THEN all_digits(Tail(clean))
       ELSE FALSE

\* the phone numbers the requests of the payment and wallet specifications carry:
\* one well-formed, one malformed
GoodPhone == <<"0", "7", "1", "2", "3", "4", "5", "6", "7", "8">>
BadPhone == <<"1", "2">>
RequestPhones == {GoodPhone, BadPhone}

\* the phone numbers the validation is explored on: a prefix and a run of digits,
\* then one character replaced by a non-digit, or one separator inserted
PhonePrefixes ==
    {<<"0", "7">>, <<"2", "5", "4">>, <<"+", "2", "5", "4">>,
     <<"0", "1">>, <<"2", "5", "5">>, <<"+", "2", "5", "5">>, <<"+", "0", "7">>}
PhoneBodyLens == {7, 8, 9, 10}
PlainPhones == {pre \o [i \in 1..n |-> "1"] : pre \in PhonePrefixes, n \in PhoneBodyLens}
Replaced(s) == {[s EXCEPT ![i] = c] : i \in 1..Len(s), c \in {"x", "+"}}
Inserted(s) ==
    {SubSeq(s, 1, i) \o <<c>> \o SubSeq(s, i + 1, Len(s)) :
        i \in 0..Len(s), c \in {" ", "-", "(", ")"}}
Phones == PlainPhones \cup UNION {Replaced(s) \cup Inserted(s) : s \in PlainPhones}

\* ------------------------------------------------------------------ state
VARIABLES
    cart_items,            \* table cart_items: a set of rows
    next_cart_id,          \* the SERIAL of cart_items.id
    products,              \* table products: id -> [vendor_id, price]
    payment_transactions,  \* table payment_transactions, keyed by checkout_request_id
    stk_issued,            \* checkout-request ids the gateway has issued so far
    shipping_orders,       \* table shipping_orders: row i has id i
    wallet_balance,        \* users.wallet_balance
    mpesa_env,             \* whether MpesaConfig::from_env() succeeds
    mpesa_client,          \* the OnceLock MPESA_CLIENT: "unset", "none" or "client"
    procs,                 \* the requests in flight
    credits,               \* history: wallet credits made for each order
    order_line,            \* history: the cart line each order was created from
    withdrawn,             \* history: the sum of each user's debited withdrawals
    last_request           \* history: the request that finished last

vars == <<cart_items, next_cart_id, products, payment_transactions, stk_issued,
          shipping_orders, wallet_balance, mpesa_env, mpesa_client, procs,
          credits, order_line, withdrawn, last_request>>

db == <<cart_items, next_cart_id, products, payment_transactions, stk_issued,
        shipping_orders, wallet_balance, credits, order_line, withdrawn>>

\* the request slots; the sequential specifications use the first only
Procs == {"p1", "p2"}
SeqProcs == {"p1"}

Idle == [pc |-> "idle"]

\* what a handler's history keeps of the state it started in
Pre == [cart_items |-> cart_items, shipping_orders |-> shipping_orders,
        wallet_balance |-> wallet_balance,
        payment_transactions |-> payment_transactions]

\* all orderings of a finite set of rows (a SELECT without ORDER BY)
RECURSIVE Perms(_)
Perms(S) ==
    IF S = {} THEN {<<>>}
    ELSE UNION {{<<x>> \o q : q \in Perms(S \ {x})} : x \in S}

Range(f) == {f[i] : i \in DOMAIN f}

\* ------------------------------------------------------------ db.rs
\* SELECT ... FROM cart_items ci JOIN products p ... WHERE ci.user_id = $1
\* variant: the lines of every user
get_cart_items_of_all_users(user_id) ==
    {ci \in cart_items : ci.product_id \in DOMAIN products}

get_cart_items(user_id) ==
    {ci \in cart_items : ci.user_id = user_id /\ ci.product_id \in DOMAIN products}

\* variant: the DELETE affects no row
remove_from_cart_keeps_line(cart, cart_item_id, user_id) == cart

\* DELETE FROM cart_items WHERE id = $1 AND user_id = $2
remove_from_cart_with_user(cart, cart_item_id, user_id) ==
    {ci \in cart : ~(ci.id = cart_item_id /\ ci.user_id = user_id)}

\* the row INSERTed by create_shipping_order; the other columns take their defaults
create_shipping_order_unit_price(customer_id, product_id, quantity) ==
    [customer_id |-> customer_id,
     product_id |-> product_id,
     vendor_id |-> products[product_id].vendor_id,
     quantity |-> quantity,
     total_amount |-> products[product_id].price,
     shipping_status |-> "pending",
     tracking_number |-> None,
     customer_verified |-> FALSE,
     payment_released |-> FALSE,
     verification_requested_at |-> FALSE]

create_shipping_order(customer_id, product_id, quantity) ==
    [customer_id |-> customer_id,
     product_id |-> product_id,
     vendor_id |-> products[product_id].vendor_id,
     quantity |-> quantity,
     total_amount |-> products[product_id].price * quantity,
     shipping_status |-> "pending",
     tracking_number |-> None,
     customer_verified |-> FALSE,
     payment_released |-> FALSE,
     verification_requested_at |-> FALSE]

\* INSERT INTO payment_transactions (...): status takes the column default
create_payment_transaction(user_id, checkout_request_id, cart_item_ids) ==
    (checkout_request_id :>
        [user_id |-> user_id,
         status |-> "initiated",
         mpesa_receipt_number |-> None,
         transaction_date |-> None,
         cart_item_ids |-> cart_item_ids]) @@ payment_transactions

\* variant: an absent receipt or date leaves the stored one in place
update_payment_transaction_coalesce(checkout_request_id, status, receipt, date) ==
    [c \in DOMAIN payment_transactions |->
        IF c = checkout_request_id
        THEN [payment_transactions[c] EXCEPT
                 !.status = status,
                 !.mpesa_receipt_number = IF receipt = None THEN @ ELSE receipt,
                 !.transaction_date = IF date = None THEN @ ELSE date]
        ELSE payment_transactions[c]]

\* UPDATE payment_transactions SET status, mpesa_receipt_number, transaction_date
\* WHERE checkout_request_id = $4
update_payment_transaction(checkout_request_id, status, receipt, date) ==
    [c \in DOMAIN payment_transactions |->
        IF c = checkout_request_id
        THEN [payment_transactions[c] EXCEPT !.status = status,
                                             !.mpesa_receipt_number = receipt,
                                             !.transaction_date = date]
        ELSE payment_transactions[c]]

\* ------------------------------------------------------------ requests
\* a request slot takes a new request
Begin(p, rec) == procs' = [procs EXCEPT ![p] = rec @@ [pre |-> Pre]]

\* the handler returns its response
Respond(p, code, body) ==
    procs' = [procs EXCEPT ![p] =
                 [pc |-> "done", req |-> procs[p].req, pre |-> procs[p].pre,
                  resp |-> [code |-> code, body |-> body]]]

\* a handler that responds in the step that takes the request
BeginRespond(p, req, code, body) ==
    procs' = [procs EXCEPT ![p] =
                 [pc |-> "done", req |-> req, pre |-> Pre,
                  resp |-> [code |-> code, body |-> body]]]

\* what last_request keeps of a finished request: the checkout-request id of a
\* success callback that found its transaction, the order and caller of a
\* verify(verified=true) that returned success
Summary(req, resp) ==
    IF /\ req.kind = "callback"
       /\ req.result_code = 0
       /\ req.checkout_request_id \in DOMAIN payment_transactions
    THEN [kind |-> "callback", id |-> req.checkout_request_id]
    ELSE IF req.kind = "verify" /\ req.verified /\ resp.code = 200
    THEN [kind |-> "verify", id |-> req.order_id, user |-> req.customer_id]
    ELSE [kind |-> "other"]

\* the response has been sent: the slot is free again
Finish(p) ==
    /\ procs[p].pc = "done"
    /\ procs' = [procs EXCEPT ![p] = Idle]
    /\ last_request' = Summary(procs[p].req, procs[p].resp)
    /\ UNCHANGED <<db, mpesa_env, mpesa_client>>

\* ------------------------------------------------------------ POST /cart
\* add_to_cart, first query: SELECT id, quantity ... WHERE user_id AND product_id
\* variant: the lookup never finds the line
existing_row_never(user_id, product_id) == {}

\* SELECT id, quantity FROM cart_items WHERE user_id = $1 AND product_id = $2
existing_row(user_id, product_id) ==
    {ci \in cart_items : ci.user_id = user_id /\ ci.product_id = product_id}

AddToCartSelect(p, user_id, product_id, quantity) ==
    /\ procs[p].pc = "idle"
    /\ LET existing == existing_row(user_id, product_id)
       IN \/ /\ existing = {}
             /\ next_cart_id <= MaxCartLines
             /\ Begin(p, [pc |-> "atc_insert",
                          req |-> [kind |-> "add_to_cart"],
                          user_id |-> user_id, product_id |-> product_id,
                          quantity |-> quantity])
          \/ \E row \in existing :
                /\ row.quantity + quantity <= MaxQty
                /\ Begin(p, [pc |-> "atc_update",
                             req |-> [kind |-> "add_to_cart"],
                             quantity |-> quantity,
                             existing_id |-> row.id,
                             existing_quantity |-> row.quantity])
    /\ UNCHANGED <<db, mpesa_env, mpesa_client, last_request>>

\* add_to_cart, existing row: UPDATE cart_items SET quantity = $1 WHERE id = $2
AddToCartUpdate(p) ==
    /\ procs[p].pc = "atc_update"
    /\ cart_items' =
          {IF ci.id = procs[p].existing_id
           THEN [ci EXCEPT !.quantity = procs[p].existing_quantity + procs[p].quantity]
           ELSE ci : ci \in cart_items}
    /\ Respond(p, 201, "cart item")
    /\ UNCHANGED <<next_cart_id, products, payment_transactions, stk_issued,
                   shipping_orders, wallet_balance, credits, order_line, withdrawn, mpesa_env, mpesa_client,
                   last_request>>

\* add_to_cart, no row: INSERT INTO cart_items (user_id, product_id, quantity)
AddToCartInsert(p) ==
    /\ procs[p].pc = "atc_insert"
    /\ next_cart_id <= MaxCartLines
    /\ cart_items' = cart_items \cup
          {[id |-> next_cart_id, user_id |-> procs[p].user_id,
            product_id |-> procs[p].product_id, quantity |-> procs[p].quantity]}
    /\ next_cart_id' = next_cart_id + 1
    /\ Respond(p, 201, "cart item")
    /\ UNCHANGED <<products, payment_transactions, stk_issued, shipping_orders,
                   wallet_balance, credits, order_line, withdrawn, mpesa_env, mpesa_client, last_request>>

\* UPDATE cart_items SET quantity = $1 WHERE id = $2 AND user_id = $3 RETURNING ...
update_cart_item_quantity(cart_item_id, user_id, quantity) ==
    {IF ci.id = cart_item_id /\ ci.user_id = user_id
     THEN [ci EXCEPT !.quantity = quantity]
     ELSE ci : ci \in cart_items}

\* PATCH /cart/{item_id}: the UPDATE runs on its own; the row it returns has no
\* column "price" (it is aliased p_price), so reading it fails and the route
\* answers 400 whether or not a row was updated
UpdateCartItem(p, user_id, cart_item_id, quantity) ==
    /\ procs[p].pc = "idle"
    /\ cart_items' = update_cart_item_quantity(cart_item_id, user_id, quantity)
    /\ BeginRespond(p, [kind |-> "update_cart_item"], 400,
                    "Cart item not found or access denied")
    /\ UNCHANGED <<next_cart_id, products, payment_transactions, stk_issued,
                   shipping_orders, wallet_balance, credits, order_line, withdrawn, mpesa_env,
                   mpesa_client, last_request>>

\* DELETE /cart/{item_id}
RemoveFromCart(p, user_id, cart_item_id) ==
    /\ procs[p].pc = "idle"
    /\ cart_items' = remove_from_cart_with_user(cart_items, cart_item_id, user_id)
    /\ BeginRespond(p, [kind |-> "remove_from_cart"], 204, "")
    /\ UNCHANGED <<next_cart_id, products, payment_transactions, stk_issued,
                   shipping_orders, wallet_balance, credits, order_line, withdrawn, mpesa_env,
                   mpesa_client, last_request>>

\* ------------------------------------------------------------ POST /checkout
\* variant: no client whatever the environment holds
get_mpesa_client_unconfigured == "none"

\* get_mpesa_client: the OnceLock is set by the first caller
get_mpesa_client ==
    IF mpesa_client = "unset"
    THEN (IF mpesa_env THEN "client" ELSE "none")
    ELSE mpesa_client

\* checkout's cart_items: the caller's lines, restricted to selected_items if given
checkout_cart_items(all_cart_items, selected) ==
    IF ~selected.some THEN all_cart_items
    ELSE SelectSeq(all_cart_items, LAMBDA item : item.id \in Range(selected.ids))

\* the snapshot checkout stores: the request's selected ids as given, or else the
\* ids of the lines read
checkout_snapshot(cart, selected) ==
    IF selected.some THEN cart_item_ids_str(selected.ids)
    ELSE cart_item_ids_str([i \in 1..Len(cart) |-> cart[i].id])

\* variant: no minimum amount
below_minimum_never(total_amount) == FALSE

\* checkout_req.total_amount < 1.0
below_minimum(total_amount) == total_amount < 1

\* variant: the Err arm of the stk_push match stores a transaction row
on_stk_push_error_storing(user_id) ==
    create_payment_transaction(user_id, stk_issued + 1, NullStr)

\* payment_transactions after the Err arm of the stk_push match: nothing is written
on_stk_push_error(user_id) == payment_transactions

\* checkout up to its first outbound call: validation, get_cart_items, the selection
CheckoutStart(p, user_id, mpesa_number, total_amount, selected) ==
    /\ procs[p].pc = "idle"
    /\ LET req == [kind |-> "checkout", user_id |-> user_id,
                   mpesa_number |-> mpesa_number, total_amount |-> total_amount]
       IN IF ~is_valid_kenyan_phone(mpesa_number)
          THEN BeginRespond(p, req, 400, "Invalid phone number") /\ UNCHANGED mpesa_client
          ELSE IF below_minimum(total_amount)
          THEN BeginRespond(p, req, 400, "Invalid amount") /\ UNCHANGED mpesa_client
          ELSE IF get_cart_items(user_id) = {}
          THEN BeginRespond(p, req, 400, "Cart is empty") /\ UNCHANGED mpesa_client
          ELSE \E all_cart_items \in Perms(get_cart_items(user_id)) :
                 LET cart == checkout_cart_items(all_cart_items, selected)
                 IN IF cart = <<>>
                    THEN /\ BeginRespond(p, req, 400, "No valid items selected for checkout")
                         /\ UNCHANGED mpesa_client
                    ELSE /\ mpesa_client' = get_mpesa_client
                         /\ Begin(p, [pc |-> IF get_mpesa_client = "client"
                                             THEN "ck_stk" ELSE "demo_orders",
                                      req |-> req, selected |-> selected,
                                      items |-> cart, i |-> 1])
    /\ UNCHANGED <<db, mpesa_env, last_request>>

\* mpesa_client.stk_push(...): the gateway accepts and issues a checkout-request id,
\* or the call fails
CheckoutStkPush(p) ==
    /\ procs[p].pc = "ck_stk"
    /\ \/ /\ stk_issued < MaxTxns
          /\ stk_issued' = stk_issued + 1
          /\ \E response_code \in {"0", "1"} :
                procs' = [procs EXCEPT ![p] =
                    [pc |-> "ck_store", req |-> procs[p].req, pre |-> procs[p].pre,
                     selected |-> procs[p].selected, items |-> procs[p].items,
                     checkout_request_id |-> stk_issued + 1,
                     response_code |-> response_code]]
          /\ UNCHANGED payment_transactions
       \/ /\ Respond(p, 503, "Payment failed")
          /\ payment_transactions' = on_stk_push_error(procs[p].req.user_id)
          /\ UNCHANGED stk_issued
    /\ UNCHANGED <<cart_items, next_cart_id, products,
                   shipping_orders, wallet_balance, credits, order_line, withdrawn, mpesa_env, mpesa_client,
                   last_request>>

\* db::create_payment_transaction, then the response to the caller
CheckoutStore(p) ==
    /\ procs[p].pc = "ck_store"
    /\ payment_transactions' =
          create_payment_transaction(procs[p].req.user_id,
                                     procs[p].checkout_request_id,
                                     checkout_snapshot(procs[p].items, procs[p].selected))
    /\ procs' = [procs EXCEPT ![p] =
          [pc |-> "done", req |-> procs[p].req, pre |-> procs[p].pre,
           resp |-> [code |-> 200,
                     body |-> IF procs[p].response_code = "0" THEN "initiated" ELSE "pending",
                     transaction_id |-> procs[p].checkout_request_id]]]
    /\ UNCHANGED <<cart_items, next_cart_id, products, stk_issued, shipping_orders,
                   wallet_balance, credits, order_line, withdrawn, mpesa_env, mpesa_client, last_request>>

\* db::create_payment_transaction fails: the error is logged and the response to
\* the caller is the same
CheckoutStoreFail(p) ==
    /\ procs[p].pc = "ck_store"
    /\ procs' = [procs EXCEPT ![p] =
          [pc |-> "done", req |-> procs[p].req, pre |-> procs[p].pre,
           resp |-> [code |-> 200,
                     body |-> IF procs[p].response_code = "0" THEN "initiated" ELSE "pending",
                     transaction_id |-> procs[p].checkout_request_id]]]
    /\ UNCHANGED <<db, mpesa_env, mpesa_client, last_request>>

\* one iteration of a "create shipping orders" loop over procs[p].items
CreateOrdersStep(p, user_id, next_pc) ==
    /\ Len(shipping_orders) < MaxOrders
    /\ LET item == procs[p].items[procs[p].i]
       IN /\ shipping_orders' = Append(shipping_orders,
                 create_shipping_order(user_id, item.product_id, item.quantity))
          /\ credits' = Append(credits, 0)
          /\ order_line' = Append(order_line, item.id)
    /\ procs' = [procs EXCEPT ![p] =
          IF procs[p].i < Len(procs[p].items)
          THEN [procs[p] EXCEPT !.i = @ + 1]
          ELSE [procs[p] EXCEPT !.pc = next_pc, !.i = 1]]
    /\ UNCHANGED <<cart_items, next_cart_id, products, payment_transactions, stk_issued,
                   wallet_balance, withdrawn, mpesa_env, mpesa_client, last_request>>

\* one iteration of a "remove from cart" loop over procs[p].items; the last one
\* is followed by the response
RemoveItemsStep(p, user_id, code, body) ==
    /\ LET item == procs[p].items[procs[p].i]
       IN cart_items' = remove_from_cart_with_user(cart_items, item.id, user_id)
    /\ IF procs[p].i < Len(procs[p].items)
       THEN procs' = [procs EXCEPT ![p] = [procs[p] EXCEPT !.i = @ + 1]]
       ELSE Respond(p, code, body)
    /\ UNCHANGED <<next_cart_id, products, payment_transactions, stk_issued,
                   shipping_orders, wallet_balance, credits, order_line, withdrawn, mpesa_env, mpesa_client,
                   last_request>>

\* demo_checkout: for item in cart_items { create_shipping_order }
DemoCreateOrder(p) ==
    /\ procs[p].pc = "demo_orders"
    /\ CreateOrdersStep(p, procs[p].req.user_id, "demo_remove")

\* demo_checkout: for item in cart_items { remove_from_cart_with_user }
DemoRemoveItem(p) ==
    /\ procs[p].pc = "demo_remove"
    /\ RemoveItemsStep(p, procs[p].req.user_id, 200, "completed")

\* ------------------------------------------------------ POST /mpesa/callback
Accepted == "Accepted"

\* extract_callback_data: Some((receipt, date, amount)) only when the metadata
\* carries all three
extract_callback_data(metadata_complete) ==
    IF metadata_complete THEN [receipt |-> "RCPT", date |-> "DATE"]
    ELSE [receipt |-> None, date |-> None]

\* variant: the user-cancelled code 1032 is not told apart from other failures
callback_status_no_cancel(result_code) ==
    IF result_code = 0 THEN "completed" ELSE "failed"

\* the status a callback writes for a result code
callback_status(result_code) ==
    IF result_code = 0 THEN "completed"
    ELSE IF result_code = 1032 THEN "cancelled"
    ELSE "failed"

\* variant: the snapshot is not consulted and the whole cart is converted
items_to_process_whole_cart(all_cart_items, snapshot) == all_cart_items

\* the lines the callback converts: the cart read, restricted to the snapshot the
\* handler's copy of the transaction carries (all lines when the column is NULL)
items_to_process(all_cart_items, snapshot) ==
    IF snapshot # NullStr
    THEN SelectSeq(all_cart_items, LAMBDA item : item.id \in selected_ids(snapshot))
    ELSE all_cart_items

\* get_payment_transaction_by_checkout_request_id; unknown id: 200 and stop
CallbackStart(p, checkout_request_id, result_code, metadata_complete) ==
    /\ procs[p].pc = "idle"
    /\ LET req == [kind |-> "callback", checkout_request_id |-> checkout_request_id,
                   result_code |-> result_code,
                   redelivery |-> (result_code = 0 /\ last_request =
                       [kind |-> "callback", id |-> checkout_request_id])]
       IN IF checkout_request_id \notin DOMAIN payment_transactions
          THEN BeginRespond(p, req, 200, Accepted)
          ELSE Begin(p, [pc |-> "cb_update", req |-> req,
                         metadata_complete |-> metadata_complete,
                         transaction |-> payment_transactions[checkout_request_id]])
    /\ UNCHANGED <<db, mpesa_env, mpesa_client, last_request>>

\* db::update_payment_transaction with the status of the result code
CallbackUpdate(p) ==
    /\ procs[p].pc = "cb_update"
    /\ LET req == procs[p].req
           data == extract_callback_data(procs[p].metadata_complete)
       IN IF req.result_code = 0
          THEN /\ payment_transactions' =
                     update_payment_transaction(req.checkout_request_id,
                         callback_status(req.result_code), data.receipt, data.date)
               /\ procs' = [procs EXCEPT ![p] =
                     [pc |-> "cb_cart", req |-> req, pre |-> procs[p].pre,
                      transaction |-> procs[p].transaction]]
          ELSE /\ payment_transactions' =
                     update_payment_transaction(req.checkout_request_id,
                         callback_status(req.result_code), None, None)
               /\ Respond(p, 200, Accepted)
    /\ UNCHANGED <<cart_items, next_cart_id, products, stk_issued, shipping_orders,
                   wallet_balance, credits, order_line, withdrawn, mpesa_env, mpesa_client, last_request>>

\* db::get_cart_items(transaction.user_id) and the filter on the snapshot
CallbackCart(p) ==
    /\ procs[p].pc = "cb_cart"
    /\ \E all_cart_items \in Perms(get_cart_items(procs[p].transaction.user_id)) :
          LET items == items_to_process(all_cart_items, procs[p].transaction.cart_item_ids)
          IN IF items = <<>>
             THEN Respond(p, 200, Accepted)
             ELSE procs' = [procs EXCEPT ![p] =
                     [pc |-> "cb_orders", req |-> procs[p].req, pre |-> procs[p].pre,
                      transaction |-> procs[p].transaction, items |-> items, i |-> 1]]
    /\ UNCHANGED <<db, mpesa_env, mpesa_client, last_request>>

\* for item in &items_to_process { create_shipping_order }
CallbackCreateOrder(p) ==
    /\ procs[p].pc = "cb_orders"
    /\ CreateOrdersStep(p, procs[p].transaction.user_id, "cb_remove")

\* for item in &items_to_process { remove_from_cart_with_user }
CallbackRemoveItem(p) ==
    /\ procs[p].pc = "cb_remove"
    /\ RemoveItemsStep(p, procs[p].transaction.user_id, 200, Accepted)

\* variant: a failed database call is reported to the gateway
ack_code_reporting(db_failed) == IF db_failed THEN 500 ELSE 200

\* the status of the callback's response: HttpResponse::Ok() on every path
ack_code(db_failed) == 200

\* db::update_payment_transaction fails: the error is logged, the handler goes on
CallbackUpdateFail(p) ==
    /\ procs[p].pc = "cb_update"
    /\ IF procs[p].req.result_code = 0
       THEN procs' = [procs EXCEPT ![p] =
               [pc |-> "cb_cart", req |-> procs[p].req, pre |-> procs[p].pre,
                transaction |-> procs[p].transaction]]
       ELSE Respond(p, ack_code(TRUE), Accepted)
    /\ UNCHANGED <<db, mpesa_env, mpesa_client, last_request>>

\* db::get_cart_items fails: the error is logged
CallbackCartFail(p) ==
    /\ procs[p].pc = "cb_cart"
    /\ Respond(p, ack_code(TRUE), Accepted)
    /\ UNCHANGED <<db, mpesa_env, mpesa_client, last_request>>

\* db::create_shipping_order fails before its INSERT: the error is logged and the
\* loop goes on with the next item
CallbackCreateOrderFail(p) ==
    /\ procs[p].pc = "cb_orders"
    /\ procs' = [procs EXCEPT ![p] =
          IF procs[p].i < Len(procs[p].items)
          THEN [procs[p] EXCEPT !.i = @ + 1]
          ELSE [procs[p] EXCEPT !.pc = "cb_remove", !.i = 1]]
    /\ UNCHANGED <<db, mpesa_env, mpesa_client, last_request>>

\* db::remove_from_cart_with_user fails: the error is logged and the loop goes on
CallbackRemoveItemFail(p) ==
    /\ procs[p].pc = "cb_remove"
    /\ IF procs[p].i < Len(procs[p].items)
       THEN procs' = [procs EXCEPT ![p] = [procs[p] EXCEPT !.i = @ + 1]]
       ELSE Respond(p, ack_code(TRUE), Accepted)
    /\ UNCHANGED <<db, mpesa_env, mpesa_client, last_request>>

\* ------------------------------------------- POST /payments/process-completed

RECURSIVE newest_first(_)
\* ORDER BY created_at DESC: the rows with these ids, the last created first
newest_first(ids) ==
    IF ids = {} THEN <<>>
    ELSE LET m == CHOOSE x \in ids : \A y \in ids : y <= x
         IN <<payment_transactions[m]>> \o newest_first(ids \ {m})

\* SELECT ... FROM payment_transactions WHERE user_id = $1 ORDER BY created_at DESC
get_user_payment_transactions(user_id) ==
    newest_first({c \in DOMAIN payment_transactions :
                     payment_transactions[c].user_id = user_id})

\* extract_auth, then db::get_user_payment_transactions(user_id)
ProcessCompletedStart(p, user_id) ==
    /\ procs[p].pc = "idle"
    /\ Begin(p, [pc |-> "pc_next",
                 req |-> [kind |-> "process_completed", user_id |-> user_id],
                 transactions |-> get_user_payment_transactions(user_id), t |-> 1])
    /\ UNCHANGED <<db, mpesa_env, mpesa_client, last_request>>

\* for transaction in transactions: one that is not completed is skipped; for a
\* completed one db::get_cart_items(user_id) and the filter on its snapshot; no
\* item: continue
ProcessCompletedCart(p) ==
    /\ procs[p].pc = "pc_next"
    /\ procs[p].t <= Len(procs[p].transactions)
    /\ LET transaction == procs[p].transactions[procs[p].t]
       IN IF transaction.status # "completed"
          THEN procs' = [procs EXCEPT ![p] = [procs[p] EXCEPT !.t = @ + 1]]
          ELSE \E all_cart_items \in Perms(get_cart_items(procs[p].req.user_id)) :
                  LET items == items_to_process(all_cart_items, transaction.cart_item_ids)
                  IN IF items = <<>>
                     THEN procs' = [procs EXCEPT ![p] = [procs[p] EXCEPT !.t = @ + 1]]
                     ELSE procs' = [procs EXCEPT ![p] =
                             [pc |-> "pc_orders", req |-> procs[p].req,
                              pre |-> procs[p].pre,
                              transactions |-> procs[p].transactions,
                              t |-> procs[p].t, items |-> items, i |-> 1]]
    /\ UNCHANGED <<db, mpesa_env, mpesa_client, last_request>>

\* for item in &items_to_process { create_shipping_order }
ProcessCompletedCreateOrder(p) ==
    /\ procs[p].pc = "pc_orders"
    /\ CreateOrdersStep(p, procs[p].req.user_id, "pc_remove")

\* for item in &items_to_process { remove_from_cart_with_user }, then the next
\* transaction
ProcessCompletedRemoveItem(p) ==
    /\ procs[p].pc = "pc_remove"
    /\ LET item == procs[p].items[procs[p].i]
       IN cart_items' = remove_from_cart_with_user(cart_items, item.id,
                                                   procs[p].req.user_id)
    /\ procs' = [procs EXCEPT ![p] =
          IF procs[p].i < Len(procs[p].items)
          THEN [procs[p] EXCEPT !.i = @ + 1]
          ELSE [pc |-> "pc_next", req |-> procs[p].req, pre |-> procs[p].pre,
                transactions |-> procs[p].transactions, t |-> procs[p].t + 1]]
    /\ UNCHANGED <<next_cart_id, products, payment_transactions, stk_issued,
                   shipping_orders, wallet_balance, credits, order_line, withdrawn, mpesa_env,
                   mpesa_client, last_request>>

\* after the last transaction: 200 with the counts
ProcessCompletedRespond(p) ==
    /\ procs[p].pc = "pc_next"
    /\ procs[p].t > Len(procs[p].transactions)
    /\ Respond(p, 200, "processed")
    /\ UNCHANGED <<db, mpesa_env, mpesa_client, last_request>>

\* ------------------------------------------- PATCH /shipping/{order_id}/status
\* a row lock taken by an UPDATE inside a settlement transaction not yet committed
OrderLocked(order_id) ==
    \E q \in Procs : /\ procs[q].pc \in {"vf_credit", "vf_commit"}
                     /\ procs[q].req.order_id = order_id

WalletLocked(user_id) ==
    \E q \in Procs : procs[q].pc = "vf_commit" /\ procs[q].vendor_id = user_id

\* String::to_lowercase on the status strings the requests carry
to_lowercase(status) == IF status = "Delivered" THEN "delivered" ELSE status

\* db::update_shipping_status: the tracking number is written only when given
update_shipping_status(order, shipping_status, tracking_number) ==
    IF tracking_number # None
    THEN [order EXCEPT !.shipping_status = shipping_status,
                       !.tracking_number = tracking_number]
    ELSE [order EXCEPT !.shipping_status = shipping_status]

\* db::request_delivery_verification: ... WHERE id = $1 AND shipping_status = 'delivered'
request_delivery_verification(order) ==
    IF order.shipping_status = "delivered"
    THEN [order EXCEPT !.verification_requested_at = TRUE]
    ELSE order

\* variant: no comparison of the order's vendor with the caller
order_of_other_vendor_never(order, vendor_id) == FALSE

\* order_vendor_id != vendor_id
order_of_other_vendor(order, vendor_id) == order.vendor_id # vendor_id

\* check_vendor_auth, SELECT vendor_id, and the ownership test
ShippingStatusStart(p, vendor_id, order_id, shipping_status, tracking_number) ==
    /\ procs[p].pc = "idle"
    /\ LET req == [kind |-> "shipping_status", vendor_id |-> vendor_id,
                   order_id |-> order_id]
       IN IF order_id \notin DOMAIN shipping_orders
          THEN BeginRespond(p, req, 404, "Order not found")
          ELSE IF order_of_other_vendor(shipping_orders[order_id], vendor_id)
          THEN BeginRespond(p, req, 403, "Can only update your own orders")
          ELSE Begin(p, [pc |-> "us_update", req |-> req,
                         shipping_status |-> shipping_status,
                         tracking_number |-> tracking_number])
    /\ UNCHANGED <<db, mpesa_env, mpesa_client, last_request>>

\* db::update_shipping_status
ShippingStatusUpdate(p) ==
    /\ procs[p].pc = "us_update"
    /\ ~OrderLocked(procs[p].req.order_id)
    /\ shipping_orders' = [shipping_orders EXCEPT ![procs[p].req.order_id] =
          update_shipping_status(@, procs[p].shipping_status, procs[p].tracking_number)]
    /\ IF to_lowercase(procs[p].shipping_status) = "delivered"
       THEN procs' = [procs EXCEPT ![p] =
               [pc |-> "us_request", req |-> procs[p].req, pre |-> procs[p].pre]]
       ELSE Respond(p, 200, "Shipping status updated successfully")
    /\ UNCHANGED <<cart_items, next_cart_id, products, payment_transactions, stk_issued,
                   wallet_balance, credits, order_line, withdrawn, mpesa_env, mpesa_client,
                   last_request>>

\* db::request_delivery_verification, its result ignored
ShippingStatusRequestVerification(p) ==
    /\ procs[p].pc = "us_request"
    /\ ~OrderLocked(procs[p].req.order_id)
    /\ shipping_orders' = [shipping_orders EXCEPT ![procs[p].req.order_id] =
          request_delivery_verification(@)]
    /\ Respond(p, 200, "Shipping status updated successfully")
    /\ UNCHANGED <<cart_items, next_cart_id, products, payment_transactions, stk_issued,
                   wallet_balance, credits, order_line, withdrawn, mpesa_env, mpesa_client,
                   last_request>>

\* ------------------------------------------- POST /shipping/{order_id}/verify
\* variant: no ownership test
order_owned_by_anyone(order, customer_id) == TRUE

\* "Verify customer owns this order"
order_owned_by(order, customer_id) == order.customer_id = customer_id

\* variant: no test of payment_released
already_released_unchecked(order) == FALSE

\* "Prevent double payment": the payment_released column read by the first SELECT
already_released(order) == order.payment_released

\* variant: the first UPDATE runs on the pool, outside tx, and shows at once
orders_after_flag_update_autocommit(order_id) ==
    [shipping_orders EXCEPT ![order_id] =
        [@ EXCEPT !.customer_verified = TRUE, !.payment_released = TRUE]]

\* the shipping_orders table other requests see once the first UPDATE of the
\* settlement transaction has run: it runs on tx, so nothing shows before commit
orders_after_flag_update(order_id) == shipping_orders

\* the two writes of the settlement transaction, applied by its commit
settled_order(order) ==
    [order EXCEPT !.customer_verified = TRUE, !.payment_released = TRUE]

\* check_customer_auth, then verify_delivery_and_release_payment up to pool.begin()
VerifyStart(p, customer_id, order_id, verified) ==
    /\ procs[p].pc = "idle"
    /\ LET req == [kind |-> "verify", customer_id |-> customer_id,
                   order_id |-> order_id, verified |-> verified,
                   repeat |-> (verified /\ last_request =
                       [kind |-> "verify", id |-> order_id, user |-> customer_id])]
       IN IF ~verified
          THEN BeginRespond(p, req, 200, "Delivery dispute recorded")
          ELSE IF order_id \notin DOMAIN shipping_orders
          THEN BeginRespond(p, req, 500, "Failed to verify delivery")
          ELSE IF ~order_owned_by(shipping_orders[order_id], customer_id)
          THEN BeginRespond(p, req, 500, "Failed to verify delivery")
          ELSE IF already_released(shipping_orders[order_id])
          THEN BeginRespond(p, req, 200, "Delivery verified successfully")
          ELSE Begin(p, [pc |-> "vf_flag", req |-> req,
                         vendor_id |-> shipping_orders[order_id].vendor_id,
                         amount |-> shipping_orders[order_id].total_amount])
    /\ UNCHANGED <<db, mpesa_env, mpesa_client, last_request>>

\* pool.begin() and UPDATE shipping_orders SET customer_verified, payment_released
VerifyFlag(p) ==
    /\ procs[p].pc = "vf_flag"
    /\ ~OrderLocked(procs[p].req.order_id)
    /\ shipping_orders' = orders_after_flag_update(procs[p].req.order_id)
    /\ procs' = [procs EXCEPT ![p] = [procs[p] EXCEPT !.pc = "vf_credit"]]
    /\ UNCHANGED <<cart_items, next_cart_id, products, payment_transactions, stk_issued,
                   wallet_balance, credits, order_line, withdrawn, mpesa_env, mpesa_client,
                   last_request>>

\* UPDATE users SET wallet_balance = wallet_balance + $1, still inside tx
VerifyCredit(p) ==
    /\ procs[p].pc = "vf_credit"
    /\ ~WalletLocked(procs[p].vendor_id)
    /\ procs' = [procs EXCEPT ![p] = [procs[p] EXCEPT !.pc = "vf_commit"]]
    /\ UNCHANGED <<db, mpesa_env, mpesa_client, last_request>>

\* tx.commit(): both writes take effect
VerifyCommit(p) ==
    /\ procs[p].pc = "vf_commit"
    /\ shipping_orders' = [shipping_orders EXCEPT ![procs[p].req.order_id] =
          settled_order(@)]
    /\ wallet_balance' = [wallet_balance EXCEPT ![procs[p].vendor_id] =
          @ + procs[p].amount]
    /\ credits' = [credits EXCEPT ![procs[p].req.order_id] = @ + 1]
    /\ Respond(p, 200, "Delivery verified successfully")
    /\ UNCHANGED <<cart_items, next_cart_id, products, payment_transactions, stk_issued,
                   order_line, withdrawn, mpesa_env, mpesa_client, last_request>>

\* a statement of the transaction, or its commit, fails: `?` returns the error, tx
\* is dropped and rolls back what ran inside it
VerifyFail(p) ==
    /\ procs[p].pc \in {"vf_flag", "vf_credit", "vf_commit"}
    /\ procs' = [procs EXCEPT ![p] =
          [pc |-> "done", req |-> procs[p].req, pre |-> procs[p].pre,
           resp |-> [code |-> 500, body |-> "Failed to verify delivery",
                     failed_at |-> procs[p].pc]]]
    /\ UNCHANGED <<db, mpesa_env, mpesa_client, last_request>>

\* an order enters fulfilment: db::create_shipping_order as the reconciler calls it
OrderPlaced(customer_id, product_id, quantity) ==
    /\ Len(shipping_orders) < MaxEscrowOrders
    /\ shipping_orders' = Append(shipping_orders,
          create_shipping_order(customer_id, product_id, quantity))
    /\ credits' = Append(credits, 0)
    /\ order_line' = Append(order_line, 0)
    /\ UNCHANGED <<cart_items, next_cart_id, products, payment_transactions, stk_issued,
                   wallet_balance, withdrawn, mpesa_env, mpesa_client, procs, last_request>>

\* ------------------------------------------------ PATCH /products/{product_id}

\* check_vendor_auth, then UPDATE products SET ..., price = $2, ... WHERE id = $7 AND
\* vendor_id = $8 RETURNING ...: no row is an error
UpdateProduct(p, vendor_id, product_id, price) ==
    /\ procs[p].pc = "idle"
    /\ LET req == [kind |-> "update_product", vendor_id |-> vendor_id,
                   product_id |-> product_id, price |-> price]
       IN IF product_id \in DOMAIN products /\ products[product_id].vendor_id = vendor_id
          THEN /\ products' = [products EXCEPT ![product_id].price = price]
               /\ BeginRespond(p, req, 200, "product")
          ELSE /\ UNCHANGED products
               /\ BeginRespond(p, req, 400, "Product not found or access denied")
    /\ UNCHANGED <<cart_items, next_cart_id, payment_transactions, stk_issued,
                   shipping_orders, wallet_balance, credits, order_line, withdrawn, mpesa_env,
                   mpesa_client, last_request>>

\* ------------------------------------------------------ POST /wallet/withdraw
\* UPDATE users SET wallet_balance = wallet_balance - $1 WHERE id = $2
debit(balance, amount) == balance - amount

\* variant: no comparison of the balance with the amount
insufficient_never(current_balance, amount) == FALSE

\* process_wallet_withdrawal: if current_balance < amount { return Err(..) }
insufficient(current_balance, amount) == current_balance < amount

\* check_vendor_auth, the minimum amount, the phone format
WithdrawStart(p, user_id, amount, mpesa_number) ==
    /\ procs[p].pc = "idle"
    /\ LET req == [kind |-> "withdraw", user_id |-> user_id, amount |-> amount,
                   mpesa_number |-> mpesa_number]
       IN IF amount < 10
          THEN BeginRespond(p, req, 400, "Minimum withdrawal amount is KSh 10")
          ELSE IF ~is_valid_kenyan_phone(mpesa_number)
          THEN BeginRespond(p, req, 400, "Invalid M-Pesa phone number")
          ELSE Begin(p, [pc |-> "wd_balance", req |-> req])
    /\ UNCHANGED <<db, mpesa_env, mpesa_client, last_request>>

\* get_wallet_balance and the comparison with the amount
WithdrawBalance(p) ==
    /\ procs[p].pc = "wd_balance"
    /\ LET current_balance == wallet_balance[procs[p].req.user_id]
       IN IF insufficient(current_balance, procs[p].req.amount)
          THEN Respond(p, 400, "Insufficient wallet balance or withdrawal failed")
          ELSE procs' = [procs EXCEPT ![p] =
                  [pc |-> "wd_debit", req |-> procs[p].req, pre |-> procs[p].pre,
                   current_balance |-> current_balance]]
    /\ UNCHANGED <<db, mpesa_env, mpesa_client, last_request>>

\* the UPDATE of the balance; the response carries current_balance - amount
WithdrawDebit(p) ==
    /\ procs[p].pc = "wd_debit"
    /\ ~WalletLocked(procs[p].req.user_id)
    /\ wallet_balance' = [wallet_balance EXCEPT ![procs[p].req.user_id] =
          debit(@, procs[p].req.amount)]
    /\ withdrawn' = [withdrawn EXCEPT ![procs[p].req.user_id] =
          @ + procs[p].req.amount]
    /\ procs' = [procs EXCEPT ![p] =
          [pc |-> "done", req |-> procs[p].req, pre |-> procs[p].pre,
           resp |-> [code |-> 200, body |-> "Withdrawal initiated",
                     new_balance |-> procs[p].current_balance - procs[p].req.amount]]]
    /\ UNCHANGED <<cart_items, next_cart_id, products, payment_transactions, stk_issued,
                   shipping_orders, credits, order_line, mpesa_env, mpesa_client,
                   last_request>>

\* ------------------------------------------------------------ inputs
\* the customer whose cart and payments the payment specifications follow
Buyers == {1}
Quantities == 1..MaxQty
CartLineIds == 1..MaxCartLines
RECURSIVE Ascending(_)
\* the ascending sequences over a set of ids: one per subset
Ascending(S) ==
    IF S = {} THEN {<<>>}
    ELSE LET m == CHOOSE x \in S : \A y \in S : y <= x
         IN Ascending(S \ {m}) \cup {Append(q, m) : q \in Ascending(S \ {m})}
\* selected_items: absent, or a list of cart-line ids of the caller's choosing
Selections == {[some |-> FALSE]} \cup {[some |-> TRUE, ids |-> q] : q \in Ascending(CartLineIds)}
\* checkout-request ids a callback may carry: the issued ones and one never issued
CallbackIds == 1..(MaxTxns + 1)
ResultCodes == {0, 1, 1032}

\* ------------------------------------------------------------ specification
\* the tables as the schema creates them, no request in flight
InitTables ==
    /\ cart_items = {}
    /\ next_cart_id = 1
    /\ products = InitialProducts
    /\ payment_transactions = <<>>
    /\ stk_issued = 0
    /\ shipping_orders = <<>>
    /\ wallet_balance = [u \in Users |-> 0]
    /\ mpesa_client = "unset"
    /\ procs = [p \in Procs |-> Idle]
    /\ credits = <<>>
    /\ order_line = <<>>
    /\ withdrawn = [u \in Users |-> 0]
    /\ last_request = [kind |-> "other"]

\* the gateway credentials are in the environment
Init == InitTables /\ mpesa_env = TRUE

\* the gateway credentials are in the environment, or are not
InitCheckout == InitTables /\ mpesa_env \in BOOLEAN

\* the payment flow, one request at a time
Next ==
    \E p \in SeqProcs :
        \/ \E u \in Buyers, pid \in ProductIds, q \in Quantities :
              AddToCartSelect(p, u, pid, q)
        \/ AddToCartUpdate(p)
        \/ AddToCartInsert(p)
        \/ \E u \in Buyers, ph \in RequestPhones, amt \in {0, 1}, sel \in Selections :
              CheckoutStart(p, u, ph, amt, sel)
        \/ CheckoutStkPush(p)
        \/ CheckoutStore(p)
        \/ \E cid \in CallbackIds, code \in ResultCodes, meta \in BOOLEAN :
              CallbackStart(p, cid, code, meta)
        \/ CallbackUpdate(p)
        \/ CallbackCart(p)
        \/ CallbackCreateOrder(p)
        \/ CallbackRemoveItem(p)
        \/ Finish(p)

Spec == Init /\ [][Next]_vars

\* the payment flow with two deliveries of callbacks in flight at once: the cart
\* is filled and checked out one request at a time, callbacks interleave
NextRace ==
    \/ \E p \in SeqProcs :
          /\ \A q \in Procs \ {p} : procs[q].pc = "idle"
          /\ \/ \E u \in Buyers, pid \in ProductIds, q \in Quantities :
                    AddToCartSelect(p, u, pid, q)
             \/ AddToCartUpdate(p)
             \/ AddToCartInsert(p)
             \/ \E u \in Buyers, sel \in Selections : CheckoutStart(p, u, GoodPhone, 1, sel)
             \/ CheckoutStkPush(p)
             \/ CheckoutStore(p)
    \/ \E p \in Procs :
          \/ \E cid \in CallbackIds, meta \in BOOLEAN : CallbackStart(p, cid, 0, meta)
          \/ CallbackUpdate(p)
          \/ CallbackCart(p)
          \/ CallbackCreateOrder(p)
          \/ CallbackRemoveItem(p)
          \/ Finish(p)

SpecRace == Init /\ [][NextRace]_vars

\* inputs of the fulfilment and settlement requests
ShippingStatuses == {"pending", "shipped", "delivered", "cancelled", "Delivered"}
TrackingNumbers == {None, "TRK"}
OrderIds == 1..(MaxEscrowOrders + 1)

\* an order is placed
PlaceOrder ==
    \E c \in Buyers, pid \in ProductIds : OrderPlaced(c, pid, MaxQty)

\* fulfilment and settlement of placed orders, by the steps of the slots S, the
\* vendors sending the statuses sts with the tracking numbers tns
EscrowSteps(S, sts, tns) ==
    \E p \in S :
          \/ \E v \in Vendors, o \in OrderIds, st \in sts, tn \in tns :
                 ShippingStatusStart(p, v, o, st, tn)
          \/ ShippingStatusUpdate(p)
          \/ ShippingStatusRequestVerification(p)
          \/ \E c \in Customers, o \in OrderIds, verified \in BOOLEAN :
                 VerifyStart(p, c, o, verified)
          \/ VerifyFlag(p)
          \/ VerifyCredit(p)
          \/ VerifyCommit(p)
          \/ Finish(p)

\* one request at a time (orders are placed between requests), no database failure
NextEscrow ==
    \/ (\A q \in Procs : procs[q].pc = "idle") /\ PlaceOrder
    \/ EscrowSteps(SeqProcs, ShippingStatuses, TrackingNumbers)

SpecEscrow == Init /\ [][NextEscrow]_vars

\* the prices a vendor sets
Prices == {5, 6}

\* fulfilment and settlement while the vendors change the prices of their products
NextPrice ==
    \/ (\A q \in Procs : procs[q].pc = "idle") /\ PlaceOrder
    \/ EscrowSteps(SeqProcs, {"delivered"}, {None})
    \/ \E p \in SeqProcs, v \in Vendors, pid \in ProductIds, price \in Prices :
          UpdateProduct(p, v, pid, price)

SpecPrice == Init /\ [][NextPrice]_vars

\* requests interleave at their database round trips, and a statement of the
\* settlement transaction may fail
NextEscrowRace ==
    \/ PlaceOrder
    \/ EscrowSteps(Procs, {"delivered"}, {None})
    \/ \E p \in Procs : VerifyFail(p)

SpecEscrowRace == Init /\ [][NextEscrowRace]_vars

\* amounts the withdrawal requests ask for: below the minimum, the minimum, more
WithdrawAmounts == {9, 10, 15}

\* settlement by the owning customer fills the wallets, vendors withdraw; by the
\* steps of the slots S
WalletSteps(S) ==
    \E p \in S :
        \/ \E c \in Buyers, o \in 1..MaxEscrowOrders : VerifyStart(p, c, o, TRUE)
        \/ VerifyFlag(p)
        \/ VerifyCredit(p)
        \/ VerifyCommit(p)
        \/ \E v \in Vendors, amount \in WithdrawAmounts, ph \in RequestPhones :
              WithdrawStart(p, v, amount, ph)
        \/ WithdrawBalance(p)
        \/ WithdrawDebit(p)
        \/ Finish(p)

\* one request at a time
NextWallet ==
    \/ (\A q \in Procs : procs[q].pc = "idle") /\ PlaceOrder
    \/ WalletSteps(SeqProcs)

SpecWallet == Init /\ [][NextWallet]_vars

\* requests interleave at their database round trips
NextWalletRace ==
    \/ PlaceOrder
    \/ WalletSteps(Procs)

SpecWalletRace == Init /\ [][NextWalletRace]_vars

\* the cart routes, one request at a time, for both customers
NextCart ==
    \E p \in SeqProcs :
        \/ \E u \in Customers, pid \in ProductIds, q \in Quantities :
              AddToCartSelect(p, u, pid, q)
        \/ AddToCartUpdate(p)
        \/ AddToCartInsert(p)
        \/ \E u \in Customers, id \in CartLineIds, q \in Quantities :
              UpdateCartItem(p, u, id, q)
        \/ \E u \in Customers, id \in CartLineIds : RemoveFromCart(p, u, id)
        \/ Finish(p)

SpecCart == Init /\ [][NextCart]_vars

\* the payment flow, one request at a time, with database calls of the callback
\* failing
NextFaults ==
    \/ Next
    \/ \E p \in SeqProcs :
          \/ CallbackUpdateFail(p)
          \/ CallbackCartFail(p)
          \/ CallbackCreateOrderFail(p)
          \/ CallbackRemoveItemFail(p)

SpecFaults == Init /\ [][NextFaults]_vars

\* both customers fill their carts, customer 1 pays, callbacks arrive (the cart
\* read of a callback may fail) and both customers run the recovery route; one
\* request at a time
NextRecover ==
    \E p \in SeqProcs :
        \/ \E u \in Customers, pid \in ProductIds :
              AddToCartSelect(p, u, pid, 1)
        \/ AddToCartUpdate(p)
        \/ AddToCartInsert(p)
        \/ \E u \in Buyers, sel \in Selections :
              CheckoutStart(p, u, GoodPhone, 1, sel)
        \/ CheckoutStkPush(p)
        \/ CheckoutStore(p)
        \/ \E cid \in CallbackIds, code \in {0, 1} :
              CallbackStart(p, cid, code, TRUE)
        \/ CallbackUpdate(p)
        \/ CallbackCart(p)
        \/ CallbackCartFail(p)
        \/ CallbackCreateOrder(p)
        \/ CallbackRemoveItem(p)
        \/ \E u \in Customers : ProcessCompletedStart(p, u)
        \/ ProcessCompletedCart(p)
        \/ ProcessCompletedCreateOrder(p)
        \/ ProcessCompletedRemoveItem(p)
        \/ ProcessCompletedRespond(p)
        \/ Finish(p)

SpecRecover == Init /\ [][NextRecover]_vars

\* checkout with the gateway configured or not, the database failing or not, one
\* request at a time
NextCheckout ==
    \E p \in SeqProcs :
        \/ \E u \in Buyers, pid \in ProductIds, q \in Quantities :
              AddToCartSelect(p, u, pid, q)
        \/ AddToCartUpdate(p)
        \/ AddToCartInsert(p)
        \/ \E u \in Buyers, ph \in RequestPhones, amt \in {0, 1}, sel \in Selections :
              CheckoutStart(p, u, ph, amt, sel)
        \/ CheckoutStkPush(p)
        \/ CheckoutStore(p)
        \/ CheckoutStoreFail(p)
        \/ DemoCreateOrder(p)
        \/ DemoRemoveItem(p)
        \/ Finish(p)

SpecCheckout == InitCheckout /\ [][NextCheckout]_vars

\* checkout's phone validation, on every phone number of Phones
NextPhone ==
    \E p \in SeqProcs :
        \/ \E u \in Buyers, ph \in Phones : CheckoutStart(p, u, ph, 1, [some |-> FALSE])
        \/ Finish(p)

SpecPhone == Init /\ [][NextPhone]_vars

\* ------------------------------------------------------------ claims
\* a callback that found its transaction has returned its response in slot p
CallbackDone(p) ==
    /\ procs[p].pc = "done"
    /\ procs[p].req.kind = "callback"
    /\ procs[p].req.checkout_request_id \in DOMAIN procs[p].pre.payment_transactions

\* the transaction row as it was when the callback in slot p started
CallbackTxn(p) == procs[p].pre.payment_transactions[procs[p].req.checkout_request_id]

\* the owner's cart lines, as they were when the callback in slot p started, whose
\* id is in the transaction's snapshot
SnapshotLines(p) ==
    {ci \in procs[p].pre.cart_items :
        /\ ci.user_id = CallbackTxn(p).user_id
        /\ ci.id \in selected_ids(CallbackTxn(p).cart_item_ids)}

\* the rows of shipping_orders inserted since the handler in slot p started
NewOrders(p) ==
    {i \in DOMAIN shipping_orders : i > Len(procs[p].pre.shipping_orders)}

\* the rows of shipping_orders that existed when the handler in slot p started are
\* as they were
OldOrdersKept(p) ==
    SubSeq(shipping_orders, 1, Len(procs[p].pre.shipping_orders))
        = procs[p].pre.shipping_orders

\* C1: a success callback for an existing transaction creates exactly one
\* ShippingOrder (the owner's, with the line's product and quantity) for each cart
\* line whose id is in the snapshot, deletes exactly those lines, and leaves every
\* other cart line as it was.
C1_SuccessCallbackConvertsSnapshot ==
    \A p \in SeqProcs :
        (CallbackDone(p) /\ procs[p].req.result_code = 0) =>
            /\ cart_items = procs[p].pre.cart_items \ SnapshotLines(p)
            /\ OldOrdersKept(p)
            /\ Cardinality(NewOrders(p)) = Cardinality(SnapshotLines(p))
            /\ \A ci \in SnapshotLines(p) :
                  Cardinality({i \in NewOrders(p) :
                      /\ order_line[i] = ci.id
                      /\ shipping_orders[i].customer_id = ci.user_id
                      /\ shipping_orders[i].product_id = ci.product_id
                      /\ shipping_orders[i].quantity = ci.quantity}) = 1

\* C1 witness: a success callback converted a snapshotted line and left another
\* line of the same cart in place.
C1_Witness ==
    \E p \in SeqProcs :
        /\ CallbackDone(p)
        /\ procs[p].req.result_code = 0
        /\ SnapshotLines(p) # {}
        /\ NewOrders(p) # {}
        /\ \E ci \in cart_items : ci.user_id = CallbackTxn(p).user_id

\* C2: a callback with a non-zero result code sets the status to cancelled for
\* 1032 and to failed otherwise, creates no ShippingOrder and leaves the cart alone.
C2_FailureCallbackOnlySetsStatus ==
    \A p \in SeqProcs :
        (CallbackDone(p) /\ procs[p].req.result_code # 0) =>
            /\ payment_transactions[procs[p].req.checkout_request_id].status =
                  (IF procs[p].req.result_code = 1032 THEN "cancelled" ELSE "failed")
            /\ shipping_orders = procs[p].pre.shipping_orders
            /\ cart_items = procs[p].pre.cart_items

\* C2 witness: a user-cancelled (1032) callback was processed while the owner's
\* cart held lines.
C2_Witness ==
    \E p \in SeqProcs :
        /\ CallbackDone(p)
        /\ procs[p].req.result_code = 1032
        /\ payment_transactions[procs[p].req.checkout_request_id].status = "cancelled"
        /\ cart_items # {}

\* C3: a transaction's status changes only from initiated; once it is completed,
\* failed or cancelled no callback changes it.
C3_StatusOnlyLeavesInitiated ==
    [][\A c \in DOMAIN payment_transactions :
          payment_transactions'[c].status # payment_transactions[c].status
              => payment_transactions[c].status = "initiated"]_vars

\* C4: the second of two success callbacks for one checkout-request id processed
\* back to back leaves the orders, the cart and the wallets as the first left them.
C4_SecondDeliveryChangesNothing ==
    \A p \in SeqProcs :
        (CallbackDone(p) /\ procs[p].req.redelivery) =>
            /\ shipping_orders = procs[p].pre.shipping_orders
            /\ cart_items = procs[p].pre.cart_items
            /\ wallet_balance = procs[p].pre.wallet_balance

\* C4 witness: the second delivery finished after the first had created orders.
C4_Witness ==
    \E p \in SeqProcs :
        /\ CallbackDone(p)
        /\ procs[p].req.redelivery
        /\ shipping_orders # <<>>

\* C5: however two success callbacks for one checkout-request id interleave, no
\* cart line is converted into more than one ShippingOrder.
C5_AtMostOneOrderPerLine ==
    \A i, j \in DOMAIN order_line :
        (i # j /\ order_line[i] # 0) => order_line[i] # order_line[j]

\* a verify(verified=true) request has returned its response in slot p
VerifyDone(p) ==
    /\ procs[p].pc = "done"
    /\ procs[p].req.kind = "verify"
    /\ procs[p].req.verified

RECURSIVE CreditedUpTo(_, _)
\* what the settlements of the first n orders have added to the wallet of v
CreditedUpTo(v, n) ==
    IF n = 0 THEN 0
    ELSE CreditedUpTo(v, n - 1)
         + (IF shipping_orders[n].vendor_id = v
            THEN credits[n] * shipping_orders[n].total_amount ELSE 0)

\* what the settlements have added to the wallet of v
Credited(v) == CreditedUpTo(v, Len(shipping_orders))

\* C6: the second of two verify(verified=true) calls made back to back by the
\* owning customer returns success and changes neither the order nor any wallet;
\* the vendor has been credited with the order's total_amount exactly once.
C6_SecondVerifyIsNoOp ==
    \A p \in SeqProcs :
        (VerifyDone(p) /\ procs[p].req.repeat) =>
            /\ procs[p].resp.code = 200
            /\ shipping_orders = procs[p].pre.shipping_orders
            /\ wallet_balance = procs[p].pre.wallet_balance
            /\ credits[procs[p].req.order_id] = 1
            /\ \A v \in Vendors : wallet_balance[v] = Credited(v)

\* C6 witness: the second call returned after the first had released the payment
\* and credited the order's vendor.
C6_Witness ==
    \E p \in SeqProcs :
        /\ VerifyDone(p)
        /\ procs[p].req.repeat
        /\ shipping_orders[procs[p].req.order_id].payment_released
        /\ wallet_balance[shipping_orders[procs[p].req.order_id].vendor_id] > 0

\* C7: however verify(verified=true) requests for one order interleave,
\* payment_released never goes back from true to false and the order's
\* total_amount is added to the vendor's wallet at most once.
C7_ReleasedOnceUnderConcurrency ==
    /\ [](\A o \in DOMAIN credits : credits[o] <= 1)
    /\ [][\A o \in DOMAIN shipping_orders :
             shipping_orders[o].payment_released
                 => shipping_orders'[o].payment_released]_vars

\* C8: in every state, also after a failure between the two writes, an order has
\* customer_verified = payment_released = true exactly when its total_amount has
\* been added to its vendor's wallet, and the wallets hold what settlements added.
C8_FlagsAndCreditTogether ==
    /\ \A o \in DOMAIN shipping_orders :
          /\ shipping_orders[o].customer_verified = shipping_orders[o].payment_released
          /\ shipping_orders[o].payment_released <=> credits[o] >= 1
    /\ \A v \in Users : wallet_balance[v] = Credited(v)

\* C8 witness: a settlement failed after its first UPDATE and before its second,
\* and the order is unreleased and uncredited.
C8_Witness ==
    \E p \in Procs :
        /\ VerifyDone(p)
        /\ "failed_at" \in DOMAIN procs[p].resp
        /\ procs[p].resp.failed_at = "vf_credit"
        /\ ~shipping_orders[procs[p].req.order_id].payment_released
        /\ credits[procs[p].req.order_id] = 0

\* the order the verify request in slot p names existed when it started and
\* belonged to another customer
VerifyByNonOwner(p) ==
    /\ VerifyDone(p)
    /\ procs[p].req.order_id \in DOMAIN procs[p].pre.shipping_orders
    /\ procs[p].pre.shipping_orders[procs[p].req.order_id].customer_id
          # procs[p].req.customer_id

\* C9: verify(verified=true) by a customer other than the order's is answered with
\* an error and leaves the orders (their flags included) and every wallet as they
\* were.
C9_NonOwnerRejected ==
    \A p \in SeqProcs :
        VerifyByNonOwner(p) =>
            /\ procs[p].resp.code >= 400
            /\ shipping_orders = procs[p].pre.shipping_orders
            /\ wallet_balance = procs[p].pre.wallet_balance

\* C9 witness: a non-owner's verify was answered for a delivered order awaiting
\* verification.
C9_Witness ==
    \E p \in SeqProcs :
        /\ VerifyByNonOwner(p)
        /\ shipping_orders[procs[p].req.order_id].shipping_status = "delivered"
        /\ shipping_orders[procs[p].req.order_id].verification_requested_at
        /\ ~shipping_orders[procs[p].req.order_id].payment_released

\* C10: payment_released becomes true, and the vendor is credited, only for an
\* order whose shipping_status is delivered and whose verification_requested_at is
\* stamped.
C10_ReleaseOnlyAfterDelivery ==
    [][\A o \in DOMAIN shipping_orders :
          (\/ shipping_orders'[o].payment_released /\ ~shipping_orders[o].payment_released
           \/ credits'[o] > credits[o])
              => /\ shipping_orders[o].shipping_status = "delivered"
                 /\ shipping_orders[o].verification_requested_at]_vars

\* C11: in every state, under any interleaving of withdrawals, every wallet
\* balance is at least 0.
C11_BalanceNeverNegative ==
    \A u \in Users : wallet_balance[u] >= 0

\* a withdrawal request has returned its response in slot p
WithdrawDone(p) == procs[p].pc = "done" /\ procs[p].req.kind = "withdraw"

\* the balance of the withdrawing vendor when the request in slot p started
BalanceBefore(p) == procs[p].pre.wallet_balance[procs[p].req.user_id]

\* the withdrawal in slot p asks for at least 10, to a well-formed number, and for
\* no more than the balance
WithdrawalAcceptable(p) ==
    /\ procs[p].req.amount >= 10
    /\ is_valid_kenyan_phone(procs[p].req.mpesa_number)
    /\ procs[p].req.amount <= BalanceBefore(p)

\* C12: a single withdrawal with balance b is rejected, the balances unchanged,
\* when the amount is below 10, the phone number is malformed or the amount
\* exceeds b; otherwise it succeeds, the balance becomes b - amount and b - amount
\* is returned.
C12_WithdrawalOutcome ==
    \A p \in SeqProcs :
        WithdrawDone(p) =>
            IF WithdrawalAcceptable(p)
            THEN /\ procs[p].resp.code = 200
                 /\ procs[p].resp.new_balance = BalanceBefore(p) - procs[p].req.amount
                 /\ wallet_balance =
                       [procs[p].pre.wallet_balance EXCEPT ![procs[p].req.user_id] =
                           @ - procs[p].req.amount]
            ELSE /\ procs[p].resp.code >= 400
                 /\ wallet_balance = procs[p].pre.wallet_balance

\* C12 witness: a withdrawal succeeded and left a balance above zero.
C12_Witness ==
    \E p \in SeqProcs :
        /\ WithdrawDone(p)
        /\ WithdrawalAcceptable(p)
        /\ procs[p].resp.code = 200
        /\ wallet_balance[procs[p].req.user_id] > 0

\* the three forms 07XXXXXXXX, 254XXXXXXXXX and +254XXXXXXXXX, X a decimal digit
KenyanForm(s) ==
    \/ Len(s) = 10 /\ SubSeq(s, 1, 2) = <<"0", "7">> /\ all_digits(s)
    \/ Len(s) = 12 /\ SubSeq(s, 1, 3) = <<"2", "5", "4">> /\ all_digits(s)
    \/ Len(s) = 13 /\ SubSeq(s, 1, 4) = <<"+", "2", "5", "4">> /\ all_digits(Tail(s))

\* a checkout request has returned its response in slot p
CheckoutDone(p) == procs[p].pc = "done" /\ procs[p].req.kind = "checkout"

\* C13: checkout's phone validation lets a number through exactly when it has one
\* of the forms 07XXXXXXXX, 254XXXXXXXXX, +254XXXXXXXXX; a number of such a form
\* with an extra space, dash or parenthesis is rejected.
C13_PhoneAcceptedIffForm ==
    \A p \in SeqProcs :
        CheckoutDone(p) =>
            (procs[p].resp.body # "Invalid phone number"
                <=> KenyanForm(procs[p].req.mpesa_number))

\* nothing the handler in slot p could have written has changed since it started
NoSideEffect(p) ==
    /\ payment_transactions = procs[p].pre.payment_transactions
    /\ shipping_orders = procs[p].pre.shipping_orders
    /\ cart_items = procs[p].pre.cart_items

\* the request in slot p is a checkout with a malformed phone number or an amount
\* below 1
CheckoutMalformed(p) ==
    /\ procs[p].pc # "idle"
    /\ procs[p].req.kind = "checkout"
    /\ \/ ~is_valid_kenyan_phone(procs[p].req.mpesa_number)
       \/ procs[p].req.total_amount < 1

\* C14: a checkout with a malformed phone number or total_amount < 1 is answered
\* with a 4xx error in its first step, before the gateway client is asked for,
\* whatever the cart holds, and writes no transaction, no order and no cart line.
C14_MalformedCheckoutRejected ==
    \A p \in SeqProcs :
        CheckoutMalformed(p) =>
            /\ procs[p].pc = "done"
            /\ procs[p].resp.code = 400
            /\ NoSideEffect(p)

\* C14 witness: a checkout with amount 0 and a well-formed number was rejected
\* while the caller's cart held a line.
C14_Witness ==
    \E p \in SeqProcs :
        /\ CheckoutMalformed(p)
        /\ is_valid_kenyan_phone(procs[p].req.mpesa_number)
        /\ procs[p].pc = "done"
        /\ \E ci \in cart_items : ci.user_id = procs[p].req.user_id

\* C15: when the STK push of a configured gateway fails, the caller gets the
\* retryable 503 and no transaction row, no order and no cart change is made.
C15_GatewayFailureWritesNothing ==
    \A p \in SeqProcs :
        (CheckoutDone(p) /\ procs[p].resp.code = 503) =>
            /\ procs[p].resp.body = "Payment failed"
            /\ NoSideEffect(p)

\* C15 witness: with the client built, a checkout ended in the gateway error while
\* the cart held lines.
C15_Witness ==
    \E p \in SeqProcs :
        /\ CheckoutDone(p)
        /\ procs[p].resp.code = 503
        /\ mpesa_client = "client"
        /\ cart_items # {}

\* checkout has returned a checkout-request id to the caller of slot p
CheckoutReturnedId(p) ==
    /\ CheckoutDone(p)
    /\ procs[p].resp.code = 200
    /\ procs[p].resp.body \in {"initiated", "pending"}

\* C16: whenever checkout returns a checkout-request id (status initiated or
\* pending), a transaction with that id and status initiated is stored.
C16_ReturnedIdIsPersisted ==
    \A p \in SeqProcs :
        CheckoutReturnedId(p) =>
            /\ procs[p].resp.transaction_id \in DOMAIN payment_transactions
            /\ payment_transactions[procs[p].resp.transaction_id].status = "initiated"
            /\ payment_transactions[procs[p].resp.transaction_id].user_id
                  = procs[p].req.user_id

\* C17: the snapshot checkout stores holds only ids of lines that were in the
\* caller's cart when checkout ran.
C17_SnapshotWithinCart ==
    \A p \in SeqProcs :
        (/\ CheckoutReturnedId(p)
         /\ procs[p].resp.transaction_id \in DOMAIN payment_transactions) =>
            selected_ids(payment_transactions[procs[p].resp.transaction_id].cart_item_ids)
                \subseteq {ci.id : ci \in {l \in procs[p].pre.cart_items :
                                              l.user_id = procs[p].req.user_id}}

\* C18: with the gateway configured (the credentials are there, or the client has
\* been built) no checkout is on the demo path and none reports completed.
C18_NoDemoWhenConfigured ==
    (mpesa_env \/ mpesa_client = "client") =>
        \A p \in SeqProcs :
            /\ procs[p].pc \notin {"demo_orders", "demo_remove"}
            /\ CheckoutDone(p) =>
                  /\ procs[p].resp.body # "completed"
                  /\ shipping_orders = procs[p].pre.shipping_orders
                  /\ cart_items = procs[p].pre.cart_items

\* C18 witness: with the client built, a checkout whose gateway call failed has
\* returned and the caller's cart still holds its lines.
C18_Witness ==
    \E p \in SeqProcs :
        /\ mpesa_client = "client"
        /\ CheckoutDone(p)
        /\ procs[p].resp.code = 503
        /\ \E ci \in cart_items : ci.user_id = procs[p].req.user_id

\* a shipping-status update has returned its response in slot p, its caller not
\* the vendor of the order it names
StatusUpdateByOtherVendor(p) ==
    /\ procs[p].pc = "done"
    /\ procs[p].req.kind = "shipping_status"
    /\ procs[p].req.order_id \in DOMAIN procs[p].pre.shipping_orders
    /\ procs[p].pre.shipping_orders[procs[p].req.order_id].vendor_id
          # procs[p].req.vendor_id

\* C19: a shipping-status update by a vendor other than the order's is answered
\* 403 and leaves the order (status, tracking number, verification stamp) as it was.
C19_OtherVendorForbidden ==
    \A p \in SeqProcs :
        StatusUpdateByOtherVendor(p) =>
            /\ procs[p].resp.code = 403
            /\ shipping_orders = procs[p].pre.shipping_orders

\* C19 witness: another vendor's update of a pending order was answered.
C19_Witness ==
    \E p \in SeqProcs :
        /\ StatusUpdateByOtherVendor(p)
        /\ shipping_orders[procs[p].req.order_id].shipping_status = "pending"

\* C20: when the handler requests verification after a delivered transition, it
\* answers success, the order's verification_requested_at is then stamped, and
\* the stamping does not change shipping_status.
C20_DeliveredStampsVerification ==
    [][\A p \in SeqProcs :
          (procs[p].pc = "us_request" /\ procs'[p].pc = "done") =>
              LET o == procs[p].req.order_id
              IN /\ procs'[p].resp.code = 200
                 /\ shipping_orders'[o].verification_requested_at
                 /\ shipping_orders'[o].shipping_status
                       = shipping_orders[o].shipping_status]_vars

\* the moves of shipping_status the fulfilment state machine allows
AllowedStatusMoves ==
    {<<"pending", "shipped">>, <<"shipped", "delivered">>,
     <<"pending", "cancelled">>, <<"shipped", "cancelled">>}

\* C21: an order's shipping_status changes only pending -> shipped -> delivered or
\* to cancelled from pending or shipped, and not at all once the order is settled.
C21_StatusMovesForward ==
    [][\A o \in DOMAIN shipping_orders :
          shipping_orders'[o].shipping_status # shipping_orders[o].shipping_status =>
              /\ <<shipping_orders[o].shipping_status,
                   shipping_orders'[o].shipping_status>> \in AllowedStatusMoves
              /\ ~shipping_orders[o].payment_released]_vars

\* C22: the callback handler answers 200 with the fixed acknowledgement on every
\* path, failed database calls included; for an unknown checkout-request id it
\* changes no transaction, cart line or order.
C22_CallbackAlwaysAccepted ==
    \A p \in SeqProcs :
        (procs[p].pc = "done" /\ procs[p].req.kind = "callback") =>
            /\ procs[p].resp.code = 200
            /\ procs[p].resp.body = "Accepted"
            /\ procs[p].req.checkout_request_id
                   \notin DOMAIN procs[p].pre.payment_transactions
                 => NoSideEffect(p)

\* C22 witness: a failure callback whose status update failed was acknowledged:
\* the transaction is still initiated.
C22_Witness ==
    \E p \in SeqProcs :
        /\ CallbackDone(p)
        /\ procs[p].req.result_code # 0
        /\ CallbackTxn(p).status = "initiated"
        /\ payment_transactions[procs[p].req.checkout_request_id].status = "initiated"

\* C28: reconciliation removes a cart line only if it created a ShippingOrder for
\* it: every line the callback has removed has an order made from it.
C28_RemovedOnlyIfOrdered ==
    \A p \in SeqProcs :
        (CallbackDone(p) /\ procs[p].req.result_code = 0) =>
            \A ci \in procs[p].pre.cart_items \ cart_items :
                \E i \in NewOrders(p) : order_line[i] = ci.id

\* C23: an order is created with total_amount = the product's price at that moment
\* times the quantity; no later step (price update, status update, verification)
\* changes the total_amount of an existing order; a wallet changes on settlement
\* only, by the stored total_amount of an order of that vendor.
C23_TotalFixedAtCreation ==
    [][/\ \A o \in DOMAIN shipping_orders :
             shipping_orders'[o].total_amount = shipping_orders[o].total_amount
       /\ \A o \in DOMAIN shipping_orders' \ DOMAIN shipping_orders :
             shipping_orders'[o].total_amount =
                 products[shipping_orders'[o].product_id].price
                     * shipping_orders'[o].quantity
       /\ \A v \in Vendors :
             wallet_balance'[v] # wallet_balance[v] =>
                 \E o \in DOMAIN shipping_orders :
                     /\ shipping_orders[o].vendor_id = v
                     /\ shipping_orders'[o].payment_released
                     /\ wallet_balance'[v] =
                            wallet_balance[v] + shipping_orders[o].total_amount]_vars

\* C23 witness: a settled order whose product has since changed its price: the
\* vendor was credited the stored total, which is no longer price times quantity.
C23_Witness ==
    \E o \in DOMAIN shipping_orders :
        /\ shipping_orders[o].payment_released
        /\ credits[o] = 1
        /\ wallet_balance[shipping_orders[o].vendor_id] = shipping_orders[o].total_amount
        /\ shipping_orders[o].total_amount #
               products[shipping_orders[o].product_id].price * shipping_orders[o].quantity

\* C24: after every step of the cart routes a user's cart holds at most one line
\* per product, and an add_to_cart that found the product in the cart leaves the
\* set of line ids as it was and adds the quantity to the line it found.
C24_OneLinePerProduct ==
    [][/\ \A a, b \in cart_items' :
             (a.user_id = b.user_id /\ a.product_id = b.product_id) => a.id = b.id
       /\ \A p \in SeqProcs :
             (procs[p].pc = "atc_update" /\ procs'[p].pc = "done") =>
                 /\ {ci.id : ci \in cart_items'} = {ci.id : ci \in cart_items}
                 /\ \A ci \in cart_items :
                       ci.id = procs[p].existing_id =>
                           [ci EXCEPT !.quantity = @ + procs[p].quantity]
                               \in cart_items']_vars

\* C24 witness: an add_to_cart has merged into the line it found: the same ids
\* as before, one line with a larger quantity.
C24_Witness ==
    \E p \in SeqProcs :
        /\ procs[p].pc = "done"
        /\ procs[p].req.kind = "add_to_cart"
        /\ {ci.id : ci \in cart_items} = {ci.id : ci \in procs[p].pre.cart_items}
        /\ \E old \in procs[p].pre.cart_items, new \in cart_items :
              /\ new.id = old.id
              /\ new.product_id = old.product_id
              /\ new.quantity > old.quantity

\* C25: in every reachable state a transaction with a receipt number or a
\* transaction date has status completed.
C25_ReceiptOnlyWhenCompleted ==
    \A c \in DOMAIN payment_transactions :
        (\/ payment_transactions[c].mpesa_receipt_number # None
         \/ payment_transactions[c].transaction_date # None)
            => payment_transactions[c].status = "completed"

\* C25 witness: a failure callback has been handled for a transaction that had a
\* receipt and a date; both are now empty.
C25_Witness ==
    \E p \in SeqProcs :
        /\ CallbackDone(p)
        /\ procs[p].req.result_code # 0
        /\ CallbackTxn(p).mpesa_receipt_number # None
        /\ CallbackTxn(p).transaction_date # None
        /\ payment_transactions[procs[p].req.checkout_request_id].status # "completed"
        /\ payment_transactions[procs[p].req.checkout_request_id].mpesa_receipt_number = None
        /\ payment_transactions[procs[p].req.checkout_request_id].transaction_date = None

\* the recovery request in slot p has been answered
ProcessCompletedDone(p) ==
    /\ procs[p].pc = "done"
    /\ procs[p].req.kind = "process_completed"

\* the cart lines of user u, as they were when the handler in slot p started, whose
\* id is in the snapshot of a transaction of u that was completed then
RecoverableLines(p, u) ==
    {ci \in procs[p].pre.cart_items :
        /\ ci.user_id = u
        /\ \E c \in DOMAIN procs[p].pre.payment_transactions :
              LET transaction == procs[p].pre.payment_transactions[c]
              IN /\ transaction.user_id = u
                 /\ transaction.status = "completed"
                 /\ ci.id \in selected_ids(transaction.cart_item_ids)}

ReconcileDone(p) ==
    \/ CallbackDone(p) /\ procs[p].req.result_code = 0
    \/ ProcessCompletedDone(p)

\* the user whose cart the handler in slot p reconciles: the transaction's user for
\* the callback, the caller for the recovery route
ReconcileOwner(p) ==
    IF procs[p].req.kind = "callback" THEN CallbackTxn(p).user_id
    ELSE procs[p].req.user_id

\* C27: the callback and the recovery route create orders only for the
\* transaction's user and only from cart lines that user owned, and leave every
\* cart line of any other user in the cart as it was, whatever ids the snapshot
\* holds.
C27_OnlyOwnersLines ==
    \A p \in SeqProcs :
        ReconcileDone(p) =>
            /\ \A i \in NewOrders(p) :
                  /\ shipping_orders[i].customer_id = ReconcileOwner(p)
                  /\ \E ci \in procs[p].pre.cart_items :
                        /\ ci.id = order_line[i]
                        /\ ci.user_id = ReconcileOwner(p)
            /\ \A ci \in procs[p].pre.cart_items :
                  ci.user_id # ReconcileOwner(p) => ci \in cart_items

\* C27 witness: a success callback has converted a line of the transaction's user
\* while the snapshot also held the id of a line of the other customer, which is
\* still in the cart.
C27_Witness ==
    \E p \in SeqProcs :
        /\ CallbackDone(p)
        /\ procs[p].req.result_code = 0
        /\ NewOrders(p) # {}
        /\ \E ci \in procs[p].pre.cart_items :
              /\ ci.user_id # CallbackTxn(p).user_id
              /\ ci.id \in selected_ids(CallbackTxn(p).cart_item_ids)
              /\ ci \in cart_items

RECURSIVE released_total(_, _)
\* the sum of total_amount over the first n orders that belong to vendor v and
\* have payment_released set
released_total(v, n) ==
    IF n = 0 THEN 0
    ELSE released_total(v, n - 1) +
         (IF shipping_orders[n].vendor_id = v /\ shipping_orders[n].payment_released
          THEN shipping_orders[n].total_amount ELSE 0)

\* C29: in every reachable state each vendor's wallet_balance is the sum of
\* total_amount over that vendor's released orders minus the sum of that vendor's
\* debited withdrawals.
C29_WalletIsReleasedMinusWithdrawn ==
    \A v \in Vendors :
        wallet_balance[v] = released_total(v, Len(shipping_orders)) - withdrawn[v]

\* C30: the new_balance a successful withdrawal returns is the vendor's stored
\* wallet_balance right after that withdrawal's debit, whatever ran between its
\* balance read and its debit.
C30_NewBalanceIsStoredBalance ==
    [][\A p \in Procs :
          (procs[p].pc = "wd_debit" /\ procs'[p].pc = "done") =>
              procs'[p].resp.new_balance = wallet_balance'[procs[p].req.user_id]]_vars

====
